---- MODULE Spec2Model ----
(***************************************************************************)
(* Model of scripts/daily_blog.js: the daily blog generation pipeline.     *)
(*                                                                         *)
(* One process executes run(): it picks a topic, synthesizes the post      *)
(* content, downloads a cover image, rewrites the blog template into a     *)
(* new post file, prepends a card to the blogs index, and launches git.    *)
(* The files on disk (template, index, posts, images, error log) outlive   *)
(* the process; the script is started again for the next post.             *)
(*                                                                         *)
(* Strings that the code computes on (titles, slugs, file names) are       *)
(* sequences of one-character strings.  Markup is a sequence of nodes.     *)
(***************************************************************************)
EXTENDS Integers, Sequences, FiniteSets, TLC

VARIABLES
    pc,               \* position of the running process inside run()
    runs,             \* number of times the script has been started
    topic,            \* const topic            (line 150)
    apiKey,           \* process.env.OPENAI_API_KEY is set (line 104)
    blogData,         \* const blogData         (line 154)
    date,             \* getFormattedDate()     (line 155)
    slug,             \* const slug             (line 156)
    imageFilename,    \* const imageFilename    (line 157)
    blogFilename,     \* const blogFilename     (line 158)
    imageOutcome,     \* how the image download of this process ended
    gitOutcome,       \* how the git command of this process ended
    templateFile,     \* blog-ai.html on disk
    indexFile,        \* blogs.html on disk
    postFiles,        \* the post files on disk: file name -> file
    imageFiles,       \* the image files on disk (names)
    logFile,          \* logs/blog-error.txt on disk, one entry per line
    wrotePost,        \* this process has executed the write of line 230
    wroteIndex,       \* this process has executed the write of line 261
    execCalled,       \* this process has executed the exec of line 268
    caught,           \* this process has entered the catch of line 287
    successReported,  \* this process has printed the banner of line 278
    exitCode,         \* exit status of the process, -1 while it runs
    failures,         \* the failures raised so far, in order
    inserted,         \* the cards handed to prepend so far, in order
    indexOrig         \* blogs.html as it was before the first run

vars == << pc, runs, topic, apiKey, blogData, date, slug, imageFilename,
           blogFilename, imageOutcome, gitOutcome, templateFile, indexFile,
           postFiles, imageFiles, logFile, wrotePost, wroteIndex, execCalled,
           caught, successReported, exitCode, failures, inserted, indexOrig >>

(***************************************************************************)
(* Bounds                                                                  *)
(***************************************************************************)
MaxRuns == 2

MaxTitleLen == 3

(***************************************************************************)
(* Character data                                                          *)
(***************************************************************************)
UpperLetters == <<"A","B","C","D","E","F","G","H","I","J","K","L","M","N","O","P","Q","R","S","T","U","V","W","X","Y","Z">>

LowerLetters == <<"a","b","c","d","e","f","g","h","i","j","k","l","m","n","o","p","q","r","s","t","u","v","w","x","y","z">>

Digits == <<"0","1","2","3","4","5","6","7","8","9">>

Range(s) == { s[i] : i \in 1..Len(s) }

Reverse(s) == [ i \in 1..Len(s) |-> s[Len(s) + 1 - i] ]

\* t occurs in s as a contiguous substring
IsSubstring(t, s) ==
    \E i \in 0..(Len(s) - Len(t)) : SubSeq(s, i + 1, i + Len(t)) = t

(***************************************************************************)
(* TOPICS (lines 15-36).  The model draws from two of the twenty.          *)
(***************************************************************************)
Topic_AITools == <<"A","I"," ","t","o","o","l","s"," ","f","o","r"," ","p","r","o","d","u","c","t","i","v","i","t","y">>

Topic_Quantum == <<"Q","u","a","n","t","u","m"," ","C","o","m","p","u","t","i","n","g",":"," ","A"," ","B","e","g","i","n","n","e","r","'","s"," ","G","u","i","d","e">>

TOPICS == << Topic_AITools, Topic_Quantum >>

(***************************************************************************)
(* getSlug (lines 54-56)                                                   *)
(***************************************************************************)
\* String.prototype.toLowerCase on one character
ToLowerChar(c) ==
    IF \E i \in 1..Len(UpperLetters) : UpperLetters[i] = c
    THEN LowerLetters[CHOOSE i \in 1..Len(UpperLetters) : UpperLetters[i] = c]
    ELSE c

toLowerCase(s) == [ i \in 1..Len(s) |-> ToLowerChar(s[i]) ]

\* the character class [a-z0-9]
IsAlnum(c) == c \in Range(LowerLetters) \cup Range(Digits)

\* mutation of ReplaceNonAlnum: the pattern without '+', one separator per character
RECURSIVE ReplaceEachNonAlnum(_)
ReplaceEachNonAlnum(s) ==
    IF s = << >> THEN << >>
    ELSE IF IsAlnum(Head(s)) THEN << Head(s) >> \o ReplaceEachNonAlnum(Tail(s))
    ELSE << "-" >> \o ReplaceEachNonAlnum(Tail(s))

\* the longest prefix of s made of characters outside [a-z0-9] is dropped
RECURSIVE DropNonAlnum(_)
DropNonAlnum(s) ==
    IF s = << >> \/ IsAlnum(Head(s)) THEN s ELSE DropNonAlnum(Tail(s))

\* .replace(/[^a-z0-9]+/g, '-'): every maximal run outside [a-z0-9] becomes one '-'
RECURSIVE ReplaceNonAlnum(_)
ReplaceNonAlnum(s) ==
    IF s = << >> THEN << >>
    ELSE IF IsAlnum(Head(s)) THEN << Head(s) >> \o ReplaceNonAlnum(Tail(s))
    ELSE << "-" >> \o ReplaceNonAlnum(DropNonAlnum(s))

\* .replace(/(^-|-$)+/g, ''): a '-' at the very start and a '-' at the very
\* end are removed (the group can only match at those two positions)
StripEdgeDashes(s) ==
    LET a == IF s # << >> /\ Head(s) = "-" THEN Tail(s) ELSE s
    IN  IF a # << >> /\ a[Len(a)] = "-" THEN SubSeq(a, 1, Len(a) - 1) ELSE a

getSlug(title) == StripEdgeDashes(ReplaceNonAlnum(toLowerCase(title)))

(***************************************************************************)
(* getFormattedDate (lines 58-64): the clock is an input; two days.        *)
(***************************************************************************)
Dates ==
    { [ iso     |-> <<"2","0","2","5","-","0","3","-","0","1">>,
        display |-> "Mar 01, 2025" ],
      [ iso     |-> <<"2","0","2","5","-","0","3","-","0","2">>,
        display |-> "Mar 02, 2025" ] }

(***************************************************************************)
(* Markup.  A node is an element, a text node or a comment.  Text is a     *)
(* sequence of chunks: a literal of the program text, or an interpolated   *)
(* value kept as characters.  White space inside an element is left out;   *)
(* white space and comments between the top-level nodes of a fragment are  *)
(* kept, since they are siblings of the elements the code inserts.  The    *)
(* characters outside ASCII of the program text are spelled as entities.   *)
(***************************************************************************)
Lit(s) == [ lit |-> s, v |-> << >> ]

Val(cs) == [ lit |-> "", v |-> cs ]

Element(tag, cls, alt, ref, text, kids) ==
    [ type |-> "element", tag |-> tag, cls |-> cls, alt |-> alt, ref |-> ref,
      text |-> text, kids |-> kids ]

Whitespace ==
    [ type |-> "text", tag |-> "", cls |-> {}, alt |-> "", ref |-> << >>,
      text |-> << Lit(" ") >>, kids |-> << >> ]

Comment(s) ==
    [ type |-> "comment", tag |-> "", cls |-> {}, alt |-> "", ref |-> << >>,
      text |-> << Lit(s) >>, kids |-> << >> ]

IsElement(n) == n.type = "element"

\* cheerio .children(): the element nodes among the child nodes, in order
Children(nodes) == SelectSeq(nodes, IsElement)

(***************************************************************************)
(* generateFallbackContent (lines 67-101)                                  *)
(***************************************************************************)
TitlePrefix == <<"T","h","e"," ","F","u","t","u","r","e"," ","o","f"," ">>

TitleSuffix == <<":"," ","W","h","a","t"," ","Y","o","u"," ","N","e","e","d"," ","t","o"," ","K","n","o","w">>

BodyP(text) == Element("p", {"text-gray-700", "mb-4"}, "", << >>, text, << >>)

BodyH3(text) ==
    Element("h3", {"text-xl", "font-semibold", "text-gray-800", "mb-3"}, "",
            << >>, text, << >>)

BodyLi(text) == Element("li", {}, "", << >>, text, << >>)

FallbackBody(t) ==
    << Whitespace,
       BodyP(<< Lit("In the rapidly evolving world of technology, "), Val(t),
                Lit(" has emerged as a key area of focus for professionals and businesses alike. As we move further into the digital age, understanding the nuances of this subject is becoming increasingly critical.") >>),
       Whitespace,
       BodyH3(<< Lit("Why "), Val(t), Lit(" Matters Now") >>),
       Whitespace,
       BodyP(<< Lit("The shift towards "), Val(t),
                Lit(" is not just a trend; it's a fundamental change in how we approach problem-solving and efficiency. Experts predict that this field will continue to grow, offering new opportunities for innovation and optimization. Whether you are a developer, a designer, or a business owner, staying updated with these changes is essential.") >>),
       Whitespace,
       BodyH3(<< Lit("Key Benefits and Trends") >>),
       Whitespace,
       Element("ul", {"list-disc", "pl-5", "text-gray-700", "mb-4", "space-y-2"},
               "", << >>, << >>,
               << BodyLi(<< Lit("Efficiency: Streamlining workflows to save time and resources.") >>),
                  BodyLi(<< Lit("Scalability: Building systems that can grow with demand.") >>),
                  BodyLi(<< Lit("Innovation: leveraging new tools to solve old problems in creative ways.") >>) >>),
       Whitespace,
       BodyP(<< Lit("To stay ahead, it is crucial to adopt a continuous learning mindset. Experiment with new tools, read documentation, and engage with the community. The future belongs to those who adapt, and "),
                Val(t), Lit(" is a great place to start your journey.") >>),
       Whitespace,
       BodyP(<< Lit("Start exploring "), Val(t),
                Lit(" today and unlock new potentials for your career or business.") >>),
       Whitespace >>

generateFallbackContent(t) ==
    [ title           |-> TitlePrefix \o t \o TitleSuffix,
      content         |-> FallbackBody(t),
      metaDescription |-> << Lit("Discover the latest trends and insights about "),
                             Val(t),
                             Lit(". Learn why it matters and how to leverage it for success in the modern tech landscape.") >> ]

(***************************************************************************)
(* generateContent (lines 103-123).  The result says whether the call      *)
(* threw, which lines it logged, and the value it returned.  The try block *)
(* of lines 110-118 holds no call to a service: it returns the fallback.   *)
(***************************************************************************)
NoContent == [ title |-> << >>, content |-> << >>, metaDescription |-> << >> ]

\* mutation of generateContent: with a key, a failing service call escapes
generateContentRaising(t, hasKey) ==
    IF ~hasKey
    THEN [ threw |-> FALSE, value |-> generateFallbackContent(t) ]
    ELSE [ threw |-> TRUE, value |-> NoContent ]

generateContent(t, hasKey) ==
    IF ~hasKey
    THEN [ threw |-> FALSE, value |-> generateFallbackContent(t) ]
    ELSE [ threw |-> FALSE, value |-> generateFallbackContent(t) ]

(***************************************************************************)
(* logError (lines 43-48): one line is appended to the log file.  The      *)
(* timestamp of the line is left out; the message is a fixed text of the   *)
(* program followed by the text of the error, if any.                      *)
(***************************************************************************)
LogLine(text, detail) == [ level |-> "ERROR", text |-> text, detail |-> detail ]

logError(log, text, detail) == Append(log, LogLine(text, detail))

\* error messages supplied by the environment
HttpErrorMessage == "Request failed with status code 500"

WriterErrorMessage == "ENOSPC: no space left on device"

GitErrorMessage == "Command failed: git add . && git commit && git push"

(***************************************************************************)
(* downloadImage (lines 125-146).  outcome is what the environment does:   *)
(* "ok", "http" (the axios request rejects, caught at line 142) or         *)
(* "writer" (the write stream emits 'error': the promise of line 136 was   *)
(* returned without await, so its rejection passes the catch of line 142). *)
(***************************************************************************)
ImageOutcomes == { "ok", "http", "writer" }

\* mutation of downloadImage: the catch of line 142 logs and does not rethrow
downloadImageSwallowing(outcome) ==
    CASE outcome = "ok"     -> [ threw |-> FALSE, error |-> "", logged |-> FALSE ]
      [] outcome = "http"   -> [ threw |-> FALSE, error |-> HttpErrorMessage, logged |-> TRUE ]
      [] outcome = "writer" -> [ threw |-> TRUE, error |-> WriterErrorMessage, logged |-> FALSE ]

downloadImage(outcome) ==
    CASE outcome = "ok"     -> [ threw |-> FALSE, error |-> "", logged |-> FALSE ]
      [] outcome = "http"   -> [ threw |-> TRUE, error |-> HttpErrorMessage, logged |-> TRUE ]
      [] outcome = "writer" -> [ threw |-> TRUE, error |-> WriterErrorMessage, logged |-> FALSE ]

(***************************************************************************)
(* Files and documents.  cheerio.load parses the text of a file into a     *)
(* document; $.html() serializes a document.  A file written by a person   *)
(* need not be spelled the way the serializer spells it, so a file carries *)
(* its spelling ("authored" or "serialized") next to the document.         *)
(***************************************************************************)
load(file) == file.doc

html(doc) == [ form |-> "serialized", doc |-> doc ]

Authored(doc) == [ form |-> "authored", doc |-> doc ]

(***************************************************************************)
(* blog-ai.html, the template (line 11).  The document is reduced to the   *)
(* nodes the code selects: <title>, <h1>, the cover image of the hero, and *)
(* the content section with its child nodes (img, h2, then content, lines  *)
(* 188-189).  Three templates: the full one, one whose content section has *)
(* no image, and one without the content section.                          *)
(***************************************************************************)
OldTitle == <<"A","I">>

OldSrc == <<".","/","a","i",".","j","p","g">>

DateLineClasses == { "text-gray-400", "text-sm", "mb-6" }

OldSection ==
    << Element("img", {"rounded-lg"}, "AI Integration Blog", OldSrc, << >>, << >>),
       Whitespace,
       Element("h2", {"text-3xl"}, "", << >>, << Val(OldTitle) >>, << >>),
       Whitespace,
       Element("p", {"text-gray-700"}, "", << >>, << Lit("old paragraph") >>, << >>),
       Whitespace,
       Element("p", DateLineClasses, "", << >>, << Lit("Aug 10, 2024") >>, << >>) >>

TemplateDoc(hasSection, section) ==
    [ title |-> OldTitle, h1 |-> OldTitle, coverSrc |-> OldSrc,
      hasSection |-> hasSection, section |-> section ]

TemplateFiles ==
    { Authored(TemplateDoc(TRUE, OldSection)),
      Authored(TemplateDoc(TRUE, Tail(OldSection))),
      Authored(TemplateDoc(FALSE, << >>)) }

(***************************************************************************)
(* The template update of run() (lines 172-228)                            *)
(***************************************************************************)
SiteSuffix == <<" ","-"," ","N","e","x","o","r","a"," ","T","e","c","h","n","o","l","o","g","i","e","s">>

\* the nodes of a sequence with the given tag: .find(tag)
HasTag(n, tag) == n.type = "element" /\ n.tag = tag

\* .first(): a selection of at most one node
First(nodes, tag) ==
    IF \E i \in 1..Len(nodes) : HasTag(nodes[i], tag)
    THEN << nodes[CHOOSE i \in 1..Len(nodes) :
                    /\ HasTag(nodes[i], tag)
                    /\ \A j \in 1..(i - 1) : ~HasTag(nodes[j], tag)] >>
    ELSE << >>

\* lines 181-182: the text of the first h2 and the src of the content image
Retitle(nodes, title, src) ==
    [ i \in 1..Len(nodes) |->
        IF HasTag(nodes[i], "h2") /\ \A j \in 1..(i - 1) : ~HasTag(nodes[j], "h2")
        THEN [ nodes[i] EXCEPT !.text = << Val(title) >> ]
        ELSE IF HasTag(nodes[i], "img") /\ nodes[i].alt = "AI Integration Blog"
        THEN [ nodes[i] EXCEPT !.ref = src ]
        ELSE nodes[i] ]

\* line 228: .find('p.text-gray-400').text(...) on every matching descendant
RECURSIVE SetByline(_, _)
SetByline(nodes, display) ==
    [ i \in 1..Len(nodes) |->
        IF HasTag(nodes[i], "p") /\ "text-gray-400" \in nodes[i].cls
        THEN [ nodes[i] EXCEPT !.text = << Lit(display), Lit(" &bull; By AutoBlog Bot") >>,
                               !.kids = << >> ]
        ELSE [ nodes[i] EXCEPT !.kids = SetByline(nodes[i].kids, display) ] ]

DateLine(display) ==
    Element("p", DateLineClasses, "", << >>, << Lit(display) >>, << >>)

\* mutation of RebuildSection: the body is appended after the date line
RebuildSectionBodyLast(section, content, display) ==
    SetByline(First(section, "img") \o First(section, "h2")
                \o << DateLine(display) >> \o content, display)

\* lines 190-228: the child nodes of the content section after empty() and
\* the four append calls, then the byline
RebuildSection(section, content, display) ==
    SetByline(First(section, "img") \o First(section, "h2") \o content
                \o << DateLine(display) >>, display)

\* lines 172-228 on a loaded template; every call on an empty selection
\* does nothing, so a template without the section keeps its (absent) section
renderPost(doc, data, imageName, display) ==
    LET src == <<".", "/">> \o imageName
    IN  [ title      |-> data.title \o SiteSuffix,
          h1         |-> data.title,
          coverSrc   |-> src,
          hasSection |-> doc.hasSection,
          section    |-> IF doc.hasSection
                         THEN RebuildSection(Retitle(doc.section, data.title, src),
                                             data.content, display)
                         ELSE << >> ]

(***************************************************************************)
(* blogs.html, the index (line 10), reduced to the grid container and its  *)
(* child nodes.  Three index files: an empty grid, a grid that already     *)
(* holds a card, and a page without the grid.                              *)
(***************************************************************************)
OldCard ==
    Element("div", {"bg-white", "rounded-lg", "shadow"}, "", << >>, << >>,
            << Element("img", {"w-full"}, "", OldSrc, << >>, << >>),
               Element("h4", {"text-xl"}, "", << >>, << Val(OldTitle) >>, << >>) >>)

IndexDoc(hasGrid, grid) == [ hasGrid |-> hasGrid, grid |-> grid ]

IndexFiles ==
    { Authored(IndexDoc(TRUE, << >>)),
      Authored(IndexDoc(TRUE, << Whitespace, OldCard, Whitespace >>)),
      Authored(IndexDoc(FALSE, << >>)) }

\* newCardHtml (lines 238-251), as the nodes prepend parses it into
newCard(data, imageName, blogName, display) ==
    << Whitespace,
       Comment(" BLOG CARD "),
       Whitespace,
       Element("div", {"bg-white", "rounded-lg", "shadow", "hover:scale-105",
                       "transition", "overflow-hidden"}, "", << >>, << >>,
         << Element("img", {"w-full", "h-48", "object-cover"}, "",
                    <<".", "/">> \o imageName, << >>, << >>),
            Element("div", {"p-6"}, "", << >>, << >>,
              << Element("h4", {"text-xl", "font-semibold", "mb-2"}, "", << >>,
                         << Val(data.title) >>, << >>),
                 Element("p", {"text-gray-600", "text-sm", "mb-4"}, "", << >>,
                         data.metaDescription, << >>),
                 Element("p", {"text-gray-400", "text-xs", "mb-2"}, "", << >>,
                         << Lit(display) >>, << >>),
                 Element("a", {"text-blue-600", "hover:underline"}, "",
                         <<".", "/">> \o blogName, << Lit("Read More &rarr;") >>, << >>) >>) >>),
       Whitespace >>

\* mutation of prepend: the fragment goes after the existing child nodes
prependAtEnd(nodes, fragment) == nodes \o fragment

\* cheerio .prepend(html): the parsed fragment goes before the child nodes
prepend(nodes, fragment) == fragment \o nodes

\* mutation of updateIndex: a missing grid container raises
updateIndexRaising(doc, fragment) ==
    IF doc.hasGrid
    THEN [ doc |-> [ doc EXCEPT !.grid = prepend(doc.grid, fragment) ],
           found |-> TRUE, threw |-> FALSE ]
    ELSE [ doc |-> doc, found |-> FALSE, threw |-> TRUE ]

\* lines 254-259: prepend to the grid, or report that there is none
updateIndex(doc, fragment) ==
    IF doc.hasGrid
    THEN [ doc |-> [ doc EXCEPT !.grid = prepend(doc.grid, fragment) ],
           found |-> TRUE, threw |-> FALSE ]
    ELSE [ doc |-> doc, found |-> FALSE, threw |-> FALSE ]

(***************************************************************************)
(* The file names of lines 157-158                                         *)
(***************************************************************************)
ImageName(sl, iso) == <<"b","l","o","g","-">> \o sl \o <<"-">> \o iso \o <<".","j","p","g">>

BlogName(sl, iso) == iso \o <<"-">> \o sl \o <<".","h","t","m","l">>

\* fs.writeFileSync(name, file): the file is created or replaced
WriteFile(fs, name, file) ==
    [ n \in (DOMAIN fs) \cup { name } |-> IF n = name THEN file ELSE fs[n] ]

NoFiles == [ n \in {} |-> n ]

NoDate == [ iso |-> << >>, display |-> "" ]

(***************************************************************************)
(* Initial state: the files on disk, no process started yet.               *)
(***************************************************************************)
Init ==
    /\ pc = "idle"
    /\ runs = 0
    /\ topic = << >>
    /\ apiKey = FALSE
    /\ blogData = NoContent
    /\ date = NoDate
    /\ slug = << >>
    /\ imageFilename = << >>
    /\ blogFilename = << >>
    /\ imageOutcome = "none"
    /\ gitOutcome = "none"
    /\ templateFile \in TemplateFiles
    /\ indexFile \in IndexFiles
    /\ indexOrig = indexFile
    /\ postFiles = NoFiles
    /\ imageFiles = {}
    /\ logFile = << >>
    /\ wrotePost = FALSE
    /\ wroteIndex = FALSE
    /\ execCalled = FALSE
    /\ caught = FALSE
    /\ successReported = FALSE
    /\ exitCode = -1
    /\ failures = << >>
    /\ inserted = << >>

\* the catch of lines 287-290: log the message of the error
Catch(log, message) == logError(log, "", message)

(***************************************************************************)
(* The script is started (line 293); run() executes lines 150-160: topic,  *)
(* content, date, slug and file names.                                     *)
(***************************************************************************)
Start ==
    /\ pc \in { "idle", "done" }
    /\ runs < MaxRuns
    /\ \E i \in 1..Len(TOPICS), k \in BOOLEAN, d \in Dates :
         LET r == generateContent(TOPICS[i], k)
         IN  /\ topic' = TOPICS[i]
             /\ apiKey' = k
             /\ IF r.threw
                THEN /\ blogData' = NoContent
                     /\ date' = NoDate
                     /\ slug' = << >>
                     /\ imageFilename' = << >>
                     /\ blogFilename' = << >>
                     /\ logFile' = Catch(logFile, "generation failed")
                     /\ failures' = Append(failures, "generate")
                     /\ caught' = TRUE
                     /\ pc' = "exit"
                ELSE /\ blogData' = r.value
                     /\ date' = d
                     /\ slug' = getSlug(r.value.title)
                     /\ imageFilename' = ImageName(getSlug(r.value.title), d.iso)
                     /\ blogFilename' = BlogName(getSlug(r.value.title), d.iso)
                     /\ logFile' = logFile
                     /\ failures' = failures
                     /\ caught' = FALSE
                     /\ pc' = "download"
    /\ runs' = runs + 1
    /\ imageOutcome' = "none"
    /\ gitOutcome' = "none"
    /\ wrotePost' = FALSE
    /\ wroteIndex' = FALSE
    /\ execCalled' = FALSE
    /\ successReported' = FALSE
    /\ exitCode' = -1
    /\ UNCHANGED << templateFile, indexFile, postFiles, imageFiles, inserted,
                    indexOrig >>

(***************************************************************************)
(* await downloadImage(topic, imageFilename) (line 164) and, when it       *)
(* throws, the catch of run() (lines 287-290).                             *)
(***************************************************************************)
DownloadImage ==
    /\ pc = "download"
    /\ \E o \in ImageOutcomes :
         LET r    == downloadImage(o)
             log1 == IF r.logged
                     THEN logError(logFile, "Image download failed: ", r.error)
                     ELSE logFile
         IN  /\ imageOutcome' = o
             /\ failures' = IF o = "ok" THEN failures ELSE Append(failures, o)
             /\ imageFiles' = IF o = "ok" THEN imageFiles \cup { imageFilename }
                                          ELSE imageFiles
             /\ IF r.threw
                THEN /\ logFile' = Catch(log1, r.error)
                     /\ caught' = TRUE
                     /\ pc' = "exit"
                ELSE /\ logFile' = log1
                     /\ caught' = caught
                     /\ pc' = "render"
    /\ UNCHANGED << runs, topic, apiKey, blogData, date, slug, imageFilename,
                    blogFilename, gitOutcome, templateFile, indexFile, postFiles,
                    wrotePost, wroteIndex, execCalled, successReported, exitCode,
                    inserted, indexOrig >>

(***************************************************************************)
(* Lines 168-230: load the template, update it, write the post file.       *)
(***************************************************************************)
CreateBlogFile ==
    /\ pc = "render"
    /\ postFiles' = WriteFile(postFiles, blogFilename,
                              html(renderPost(load(templateFile), blogData,
                                              imageFilename, date.display)))
    /\ wrotePost' = TRUE
    /\ pc' = "index"
    /\ UNCHANGED << runs, topic, apiKey, blogData, date, slug, imageFilename,
                    blogFilename, imageOutcome, gitOutcome, templateFile,
                    indexFile, imageFiles, logFile, wroteIndex, execCalled,
                    caught, successReported, exitCode, failures, inserted,
                    indexOrig >>

(***************************************************************************)
(* Lines 235-261: load the index, prepend the card or log that the grid is *)
(* missing, and write the index file in either case.                       *)
(***************************************************************************)
UpdateBlogsIndex ==
    /\ pc = "index"
    /\ LET card == newCard(blogData, imageFilename, blogFilename, date.display)
           r    == updateIndex(load(indexFile), card)
           log1 == IF r.found
                   THEN logFile
                   ELSE logError(logFile,
                          "Could not find blog grid container in blogs.html", "")
       IN  /\ failures' = IF r.found THEN failures ELSE Append(failures, "grid")
           /\ inserted' = IF r.found THEN Append(inserted, card) ELSE inserted
           /\ IF r.threw
              THEN /\ logFile' = Catch(log1, "grid container missing")
                   /\ caught' = TRUE
                   /\ indexFile' = indexFile
                   /\ wroteIndex' = FALSE
                   /\ pc' = "exit"
              ELSE /\ logFile' = log1
                   /\ caught' = caught
                   /\ indexFile' = html(r.doc)
                   /\ wroteIndex' = TRUE
                   /\ pc' = "git"
    /\ UNCHANGED << runs, topic, apiKey, blogData, date, slug, imageFilename,
                    blogFilename, imageOutcome, gitOutcome, templateFile,
                    postFiles, imageFiles, wrotePost, execCalled,
                    successReported, exitCode, indexOrig >>

(***************************************************************************)
(* Line 268: exec launches the git command; run() returns.                 *)
(***************************************************************************)
ExecGit ==
    /\ pc = "git"
    /\ execCalled' = TRUE
    /\ pc' = "gitwait"
    /\ UNCHANGED << runs, topic, apiKey, blogData, date, slug, imageFilename,
                    blogFilename, imageOutcome, gitOutcome, templateFile,
                    indexFile, postFiles, imageFiles, logFile, wrotePost,
                    wroteIndex, caught, successReported, exitCode, failures,
                    inserted, indexOrig >>

(***************************************************************************)
(* The callback of exec (lines 268-285): on an error it logs and returns,  *)
(* otherwise it prints the success banner.                                 *)
(***************************************************************************)
GitOutcomes == { "ok", "error" }

GitCallback ==
    /\ pc = "gitwait"
    /\ \E o \in GitOutcomes :
         /\ gitOutcome' = o
         /\ IF o = "error"
            THEN /\ logFile' = logError(logFile, "Git commit failed: ", GitErrorMessage)
                 /\ failures' = Append(failures, "git")
                 /\ successReported' = successReported
            ELSE /\ logFile' = logFile
                 /\ failures' = failures
                 /\ successReported' = TRUE
    /\ pc' = "exit"
    /\ UNCHANGED << runs, topic, apiKey, blogData, date, slug, imageFilename,
                    blogFilename, imageOutcome, templateFile, indexFile,
                    postFiles, imageFiles, wrotePost, wroteIndex, execCalled,
                    caught, exitCode, inserted, indexOrig >>

(***************************************************************************)
(* Nothing is pending any more and the process ends.  No line of the       *)
(* script calls process.exit or sets process.exitCode, and run() catches   *)
(* every error (lines 287-290), so the exit status is 0.                   *)
(***************************************************************************)
ProcessExit ==
    /\ pc = "exit"
    /\ exitCode' = 0
    /\ pc' = "done"
    /\ UNCHANGED << runs, topic, apiKey, blogData, date, slug, imageFilename,
                    blogFilename, imageOutcome, gitOutcome, templateFile,
                    indexFile, postFiles, imageFiles, logFile, wrotePost,
                    wroteIndex, execCalled, caught, successReported, failures,
                    inserted, indexOrig >>

Next ==
    \/ Start
    \/ DownloadImage
    \/ CreateBlogFile
    \/ UpdateBlogsIndex
    \/ ExecGit
    \/ GitCallback
    \/ ProcessExit

Spec == Init /\ [][Next]_vars

(***************************************************************************)
(* getSlug on arbitrary titles: a title over a small alphabet is given and *)
(* lines 156-158 derive the slug and the file names from it.               *)
(***************************************************************************)
SlugAlphabet == { "a", "B", "7", "-", " ", "!" }

Titles == UNION { [ 1..n -> SlugAlphabet ] : n \in 0..MaxTitleLen }

SlugInit ==
    /\ pc = "title"
    /\ runs = 0
    /\ topic = << >>
    /\ apiKey = FALSE
    /\ \E t \in Titles :
         blogData = [ title |-> t, content |-> << >>, metaDescription |-> << >> ]
    /\ date \in Dates
    /\ slug = << >>
    /\ imageFilename = << >>
    /\ blogFilename = << >>
    /\ imageOutcome = "none"
    /\ gitOutcome = "none"
    /\ templateFile = Authored(TemplateDoc(FALSE, << >>))
    /\ indexFile = Authored(IndexDoc(FALSE, << >>))
    /\ indexOrig = indexFile
    /\ postFiles = NoFiles
    /\ imageFiles = {}
    /\ logFile = << >>
    /\ wrotePost = FALSE
    /\ wroteIndex = FALSE
    /\ execCalled = FALSE
    /\ caught = FALSE
    /\ successReported = FALSE
    /\ exitCode = -1
    /\ failures = << >>
    /\ inserted = << >>

DeriveIdentity ==
    /\ pc = "title"
    /\ slug' = getSlug(blogData.title)
    /\ imageFilename' = ImageName(getSlug(blogData.title), date.iso)
    /\ blogFilename' = BlogName(getSlug(blogData.title), date.iso)
    /\ pc' = "named"
    /\ UNCHANGED << runs, topic, apiKey, blogData, date, imageOutcome,
                    gitOutcome, templateFile, indexFile, postFiles, imageFiles,
                    logFile, wrotePost, wroteIndex, execCalled, caught,
                    successReported, exitCode, failures, inserted, indexOrig >>

SlugNext == DeriveIdentity

SlugSpec == SlugInit /\ [][SlugNext]_vars

(***************************************************************************)
(* Properties                                                              *)
(***************************************************************************)
PostDoc == load(postFiles[blogFilename])

ImageFailed == imageOutcome \in { "http", "writer" }

\* C1: when the image download fails (the request fails or the write
\* stream errors), the process writes neither the post file nor the index
\* file, never launches git, and the error reaches the catch of run().
C1_ImageFailureAborts ==
    ImageFailed => ~wrotePost /\ ~wroteIndex /\ ~execCalled /\ caught

C1_Witness == pc = "done" /\ ImageFailed /\ caught /\ ~wrotePost

TemplateAnchorsPresent ==
    /\ load(templateFile).hasSection
    /\ First(load(templateFile).section, "img") # << >>
    /\ First(load(templateFile).section, "h2") # << >>

\* C2: when the template lacks the content section (or the image or the
\* heading inside it), rendering fails and the process writes no post file.
C2_MissingAnchorWritesNoPost == ~TemplateAnchorsPresent => ~wrotePost

GridChildren(file) == Children(load(file).grid)

\* the card element of a parsed newCardHtml fragment
CardOf(fragment) == Children(fragment)[1]

RECURSIVE CardsOf(_)
CardsOf(fragments) ==
    IF fragments = << >> THEN << >>
    ELSE << CardOf(Head(fragments)) >> \o CardsOf(Tail(fragments))

\* C3: with the grid present, the index update puts the new card first
\* among the children of the grid and keeps the former children, in their
\* order, right after it; so a grid that was empty before the first run
\* holds the cards of all runs so far, the latest first.
C3_PrependOrder ==
    /\ [][ (pc = "index" /\ load(indexFile).hasGrid) =>
             GridChildren(indexFile') =
               << CardOf(newCard(blogData, imageFilename, blogFilename,
                                 date.display)) >> \o GridChildren(indexFile) ]_vars
    /\ []( (load(indexOrig).hasGrid /\ load(indexOrig).grid = << >>) =>
             GridChildren(indexFile) = Reverse(CardsOf(inserted)) )

C3_Witness ==
    /\ load(indexOrig).hasGrid
    /\ load(indexOrig).grid = << >>
    /\ Len(inserted) = 2
    /\ inserted[1] # inserted[2]
    /\ GridChildren(indexFile) = << CardOf(inserted[2]), CardOf(inserted[1]) >>

\* C4: when the index has no grid, the index update changes nothing in the
\* index document, logs one error, does not enter the catch of run(), and
\* the process goes on to launch git with the post file already written.
C4_MissingGridIsSkipped ==
    /\ [][ (pc = "index" /\ ~load(indexFile).hasGrid) =>
             /\ load(indexFile') = load(indexFile)
             /\ logFile' = Append(logFile,
                  LogLine("Could not find blog grid container in blogs.html", ""))
             /\ ~caught'
             /\ wrotePost'
             /\ pc' = "git" ]_vars
    /\ []( (~load(indexFile).hasGrid /\ imageOutcome = "ok"
              /\ pc \in { "gitwait", "exit", "done" }) =>
             /\ execCalled
             /\ wrotePost
             /\ ~caught
             /\ load(indexFile) = load(indexOrig) )

C4_Witness ==
    /\ ~load(indexFile).hasGrid
    /\ pc = "done"
    /\ execCalled
    /\ wrotePost
    /\ "grid" \in Range(failures)

\* C5: a process that wrote the post file and the index file reports the
\* success of the generation whether git succeeds or fails.
C5_SuccessReportedDespiteGit ==
    (pc = "done" /\ wrotePost /\ wroteIndex) => successReported

\* C6: a process that entered the catch of run() with a fatal error ends
\* with an exit status other than zero.
C6_FatalExitsNonZero == (pc = "done" /\ caught) => exitCode # 0

\* C7: after the template update the content section has exactly four
\* children: image, heading, body, date line.
C7_FourChildren ==
    (wrotePost /\ TemplateAnchorsPresent) => Len(Children(PostDoc.section)) = 4

\* C7 as amended: after the template update the children of the content
\* section are, in order, the image and the heading kept from the template
\* (each if the section had one), every top-level element of the body
\* markup, and the date line with the byline; with image and heading that
\* is 3 + the number of top-level body elements.
C7_SectionLayout ==
    (wrotePost /\ load(templateFile).hasSection) =>
        LET old  == load(templateFile).section
            kids == Children(PostDoc.section)
            body == Children(blogData.content)
            nImg == Len(First(old, "img"))
            k    == nImg + Len(First(old, "h2"))
            n    == Len(kids)
        IN  /\ n = k + Len(body) + 1
            /\ nImg = 1 => /\ kids[1].tag = "img"
                           /\ kids[1].ref = <<".", "/">> \o imageFilename
            /\ k > nImg => /\ kids[k].tag = "h2"
                           /\ kids[k].text = << Val(blogData.title) >>
            /\ SubSeq(kids, k + 1, n - 1) = body
            /\ kids[n].tag = "p"
            /\ kids[n].cls = DateLineClasses
            /\ kids[n].text = << Lit(date.display), Lit(" &bull; By AutoBlog Bot") >>
            /\ TemplateAnchorsPresent => n = 3 + Len(body)

C7_Witness ==
    /\ wrotePost
    /\ TemplateAnchorsPresent
    /\ Len(Children(blogData.content)) = 7
    /\ Len(Children(PostDoc.section)) = 10

SlugChars == Range(LowerLetters) \cup Range(Digits) \cup { "-" }

\* C8: the slug of any title consists of characters of [a-z0-9] and '-',
\* has no two '-' in a row and no '-' at either end; a title without a
\* character of [a-z0-9] after lowercasing has the empty slug.
C8_SlugWellFormed ==
    pc = "named" =>
        /\ Range(slug) \subseteq SlugChars
        /\ \A i \in 1..(Len(slug) - 1) : ~(slug[i] = "-" /\ slug[i + 1] = "-")
        /\ slug # << >> => (slug[1] # "-" /\ slug[Len(slug)] # "-")
        /\ (\A i \in 1..Len(blogData.title) :
               ~IsAlnum(ToLowerChar(blogData.title[i]))) => slug = << >>

C8_Witness ==
    /\ pc = "named"
    /\ Len(blogData.title) = 3
    /\ ~IsAlnum(ToLowerChar(blogData.title[2]))
    /\ ~IsAlnum(ToLowerChar(blogData.title[3]))
    /\ blogData.title[1] = "B"
    /\ slug = << "b" >>

BodyMentions(content, t) ==
    \E i \in 1..Len(content) :
        \E j \in 1..Len(content[i].text) : IsSubstring(t, content[i].text[j].v)

\* C9: generateContent never raises; with or without the API key the
\* content it returns is the fallback content of the topic, whose title and
\* body both contain the topic.
C9_ContentIsFallback ==
    /\ "generate" \notin Range(failures)
    /\ pc # "idle" =>
         /\ topic \in Range(TOPICS)
         /\ blogData = generateFallbackContent(topic)
         /\ IsSubstring(topic, blogData.title)
         /\ BodyMentions(blogData.content, topic)

C9_Witness ==
    /\ pc = "download"
    /\ apiKey
    /\ topic = Topic_Quantum
    /\ IsSubstring(Topic_Quantum, blogData.title)
    /\ BodyMentions(blogData.content, Topic_Quantum)

\* C10: every failure of a run appends exactly one line to the error log,
\* so the log holds as many lines as failures were raised.
C10_OneLinePerFailure == Len(logFile) = Len(failures)

====
